---- MODULE Spec2Model ----
(***************************************************************************)
(* Model of src/sync_net_dir.py: SyncPlanner.plan (the os.walk traversal   *)
(* with its three directory-level exclusion layers and the per-file        *)
(* decision) and SyncApplier.apply (copy to "<name>.part", utime,          *)
(* os.replace, cleanup and re-raise).                                      *)
(*                                                                         *)
(* Strings are sequences of one-character strings, so that lower(),        *)
(* replace("/", "\\"), startswith() and fnmatch() are computed on          *)
(* characters as the code computes them.  A path is a sequence of names    *)
(* relative to the source root (the same relative path names the           *)
(* destination file under the destination root).                           *)
(***************************************************************************)
EXTENDS Integers, Sequences, FiniteSets, TLC

VARIABLES
    srcExists,      \* does cfg.source_dir exist
    srcDirs,        \* directories of the source tree (relative paths, without the root)
    noList,         \* directories of the source whose listing raises OSError
    srcFiles,       \* source files: relative path -> [size, mtime, ok]
    order,          \* the order in which a directory listing yields names
    cfg,            \* the Excludes value built by JobConfig.from_yaml
    preserve_mtime, \* SyncApplier.preserve_mtime
    dstDirs,        \* directories existing under the destination root (<<>> is the root)
    dst,            \* destination files: relative path -> entry
    pc,             \* position of main(): idle, walk, planned, apply, applied, failed
    run,            \* number of the plan() call in progress or last finished
    stack,          \* directories os.walk has still to yield, next first
    items,          \* the list plan() is building / has returned
    plan1,          \* the list the first plan() returned
    queue,          \* the iterable handed to apply()
    k,              \* number of items of queue apply() has taken from the iterable
    raised,         \* the exception that propagated out of plan() or apply()
    failStep,       \* the call of apply() that raised: mkdir, copy_open, copy_write, utime, replace
    cleanupFailed,  \* os.remove(temp_path) in the except handler raised
    dst0,           \* destination files when apply() was called
    dstPrev         \* destination files when apply() took item k

vars == <<srcExists, srcDirs, noList, srcFiles, order, cfg, preserve_mtime,
          dstDirs, dst, pc, run, stack, items, plan1, queue, k, raised,
          failStep, cleanupFailed, dst0, dstPrev>>

(***************************************************************************)
(* Bounds of the model.                                                    *)
(***************************************************************************)
MaxDepth == 2     \* deepest directory below the source root
MaxDirs  == 3     \* directories in a source tree, the root not counted
MaxMtime == 3     \* modification times range over 0..MaxMtime seconds
MaxSize  == 1     \* file sizes range over 0..MaxSize

(***************************************************************************)
(* Strings.                                                                *)
(***************************************************************************)
SEP == "\\"

\* str.lower() on one character
LowerChar(c) ==
    CASE c = "O" -> "o"
      [] c = "T" -> "t"
      [] c = "A" -> "a"
      [] OTHER   -> c

\* str.lower()
Lower(s) == [i \in DOMAIN s |-> LowerChar(s[i])]

\* str.replace("/", "\\")
ReplaceSlash(s) == [i \in DOMAIN s |-> IF s[i] = "/" THEN SEP ELSE s[i]]

\* str.startswith(p)
StartsWith(s, p) ==
    /\ Len(p) <= Len(s)
    /\ SubSeq(s, 1, Len(p)) = p

\* str(Path): the names joined by the separator of the platform; the empty
\* relative path prints as "."
RECURSIVE PathStr(_)
PathStr(p) ==
    IF p = <<>> THEN <<".">>
    ELSE IF Len(p) = 1 THEN p[1]
    ELSE PathStr(SubSeq(p, 1, Len(p) - 1)) \o <<"/">> \o p[Len(p)]

\* SyncPlanner._rel_str
rel_str(p) == Lower(ReplaceSlash(PathStr(p)))

\* fnmatch.fnmatch on strings already lowercased: "*" any run, "?" any one
\* character, anything else itself
RECURSIVE fnmatch(_, _)
fnmatch(n, pat) ==
    IF pat = <<>> THEN n = <<>>
    ELSE IF Head(pat) = "*"
         THEN fnmatch(n, Tail(pat)) \/ (n # <<>> /\ fnmatch(Tail(n), pat))
         ELSE /\ n # <<>>
              /\ (Head(pat) = "?" \/ Head(pat) = Head(n))
              /\ fnmatch(Tail(n), Tail(pat))

\* PurePath.suffix: from the last dot of the name, unless that dot is the
\* first or the last character of the name
RECURSIVE LastDot(_, _)
LastDot(n, i) ==
    IF i = 0 THEN 0
    ELSE IF n[i] = "." THEN i
    ELSE LastDot(n, i - 1)

suffix(n) ==
    LET i == LastDot(n, Len(n))
    IN  IF 1 < i /\ i < Len(n) THEN SubSeq(n, i, Len(n)) ELSE <<>>

\* PurePath.with_suffix on the name of the path
with_suffix(n, suf) ==
    IF suffix(n) = <<>> THEN n \o suf
    ELSE SubSeq(n, 1, Len(n) - Len(suffix(n))) \o suf

PART == <<".", "p", "a", "r", "t">>

\* temp_path = it.dst.with_suffix(it.dst.suffix + ".part")
temp_path(p) ==
    LET n == p[Len(p)]
    IN  SubSeq(p, 1, Len(p) - 1) \o <<with_suffix(n, suffix(n) \o PART)>>

(***************************************************************************)
(* Configuration: JobConfig.from_yaml and SyncPlanner.__init__.            *)
(***************************************************************************)
\* from_yaml: root_dirs and recursive_dirs lowercased, specific_paths with
\* "/" replaced by "\\" and lowercased, file_patterns kept
from_yaml(raw) ==
    [root_dirs      |-> {Lower(n) : n \in raw.root_dirs},
     recursive_dirs |-> {Lower(n) : n \in raw.recursive_dirs},
     file_patterns  |-> raw.file_patterns,
     specific_paths |-> {Lower(ReplaceSlash(e)) : e \in raw.specific_paths}]

\* SyncPlanner.__init__: the file patterns are lowercased
file_patterns == {Lower(p) : p \in cfg.file_patterns}

\* SyncPlanner._is_file_excluded
is_file_excluded(name) ==
    \E pat \in file_patterns : fnmatch(Lower(name), pat)

\* _is_under_specific with a raw string-prefix test: startswith(sp) in place
\* of startswith(sp + "\\")
is_under_specific_rawprefix(rel_dir) ==
    /\ cfg.specific_paths # {}
    /\ \E sp \in cfg.specific_paths :
          \/ rel_str(rel_dir) = sp
          \/ StartsWith(rel_str(rel_dir), sp)

\* SyncPlanner._is_under_specific
is_under_specific(rel_dir) ==
    /\ cfg.specific_paths # {}
    /\ \E sp \in cfg.specific_paths :
          \/ rel_str(rel_dir) = sp
          \/ StartsWith(rel_str(rel_dir), sp \o <<SEP>>)

(***************************************************************************)
(* The filesystem snapshots the model explores.                            *)
(***************************************************************************)
DirNames  == {<<"o">>, <<"O">>, <<"o", "2">>}
FileA     == <<"a">>
FileAPart == <<"a">> \o PART
FileB     == <<"b">>
FileTO    == <<"T", ".", "o">>
Orphan    == <<"z">>
FileNames == {FileA, FileAPart, FileB, FileTO}

\* the trees of at most n directories, none deeper than MaxDepth
RECURSIVE TreesUpTo(_)
TreesUpTo(n) ==
    IF n = 0 THEN {{}}
    ELSE LET T == TreesUpTo(n - 1)
         IN  T \cup UNION {
                 {t \cup {Append(p, nm)} :
                     p \in {q \in t \cup {<<>>} : Len(q) < MaxDepth},
                     nm \in DirNames} : t \in T}

Trees == TreesUpTo(MaxDirs)

\* a destination entry; size, mtime, data and acc mean something when kind = "file"
\*   data: whose bytes the file holds ("old": what the destination held
\*         before this run; "full"/"part": all / some of the bytes of source file 'of')
\*   acc : what stat() of the destination path does: "ok", "statfail" (exists()
\*         is true, os.stat of the long path raises), "denied" (every stat raises)
Absent == [kind |-> "absent", size |-> 0, mtime |-> 0,
           data |-> [of |-> <<>>, state |-> "none"], acc |-> "ok"]

OldFile(sz, mt, acc) ==
    [kind |-> "file", size |-> sz, mtime |-> mt,
     data |-> [of |-> <<>>, state |-> "old"], acc |-> acc]

\* the clock of the machine when apply() runs: later than every mtime
Now == MaxMtime + 3

\* the paths the destination map ranges over: the mirror of every source
\* file, the temporary sibling of each, and one file the source does not have
DstPaths(files) ==
    files \cup {temp_path(p) : p \in files} \cup {<<Orphan>>}

\* the listing order of a directory: the names present, in the order of 'order'
Listing(S) == SelectSeq(order, LAMBDA n : n \in S)

Parent(p) == SubSeq(p, 1, Len(p) - 1)

\* p and its ancestors, the root included
Prefixes(p) == {SubSeq(p, 1, i) : i \in 0..Len(p)}

(***************************************************************************)
(* SyncPlanner._decide                                                     *)
(***************************************************************************)
\* Path.exists() of the destination: "raise" when stat fails with an errno
\* pathlib does not ignore (EACCES, ENAMETOOLONG, ...)
dst_exists(p) ==
    IF dst[p].kind = "absent" \/ Parent(p) \notin dstDirs THEN "false"
    ELSE IF dst[p].acc = "denied" THEN "raise"
    ELSE "true"

\* the tolerance test with < in place of <=
mtime_same_strict(s, d) ==
    (IF s.mtime >= d.mtime THEN s.mtime - d.mtime ELSE d.mtime - s.mtime) < 2

\* abs(s_stat.st_mtime - d_stat.st_mtime) <= 2
mtime_same(s, d) ==
    (IF s.mtime >= d.mtime THEN s.mtime - d.mtime ELSE d.mtime - s.mtime) <= 2

size_same(s, d) == s.size = d.size

decide(src, dstp) ==
    LET s == srcFiles[src]
        d == dst[dstp]
    IN  IF ~s.ok THEN [act |-> "EXCLUDE", reason |-> "unreadable"]
        ELSE IF dst_exists(dstp) = "raise" THEN [act |-> "RAISE", reason |-> "PermissionError"]
        ELSE IF dst_exists(dstp) = "false" THEN [act |-> "ADD", reason |-> "missing"]
        ELSE IF d.acc = "statfail" THEN [act |-> "UPDATE", reason |-> "dst unreadable"]
        ELSE IF size_same(s, d) /\ mtime_same(s, d)
             THEN [act |-> "SKIP", reason |-> "same size+mtime"]
        ELSE [act |-> "UPDATE",
              reason |-> IF size_same(s, d) THEN "size =, mtime /="
                         ELSE IF mtime_same(s, d) THEN "size /=, mtime ="
                         ELSE "size /=, mtime /="]

(***************************************************************************)
(* SyncPlanner.plan                                                        *)
(***************************************************************************)
PlanItem(action, src, dstp, reason) ==
    [action |-> action, src |-> src, dst |-> dstp, reason |-> reason]

\* the root-only partition without the test "rel_dir == Path('.')"
root_removed_anydepth(rel_dir, dirnames) ==
    SelectSeq(dirnames, LAMBDA n : Lower(n) \in cfg.root_dirs)

\* lines 113-127: at the root, the child directories named in root_dirs
root_removed(rel_dir, dirnames) ==
    IF rel_dir = <<>>
    THEN SelectSeq(dirnames, LAMBDA n : Lower(n) \in cfg.root_dirs)
    ELSE <<>>

root_keep(rel_dir, dirnames) ==
    IF rel_dir = <<>>
    THEN SelectSeq(dirnames, LAMBDA n : Lower(n) \notin cfg.root_dirs)
    ELSE dirnames

\* the recursive partition comparing the names as they are, not lowercased
rec_removed_cased(dirnames) ==
    SelectSeq(dirnames, LAMBDA n : n \in cfg.recursive_dirs)

\* lines 129-143: at every level, the remaining child directories named in
\* recursive_dirs
rec_removed(dirnames) ==
    SelectSeq(dirnames, LAMBDA n : Lower(n) \in cfg.recursive_dirs)

rec_keep(dirnames) ==
    SelectSeq(dirnames, LAMBDA n : Lower(n) \notin cfg.recursive_dirs)

\* lines 146-156: the item of one file of the directory
file_item(rel_dir, fname) ==
    LET rel_file == Append(rel_dir, fname)
    IN  IF is_file_excluded(fname)
        THEN PlanItem("EXCLUDE", rel_file, rel_file, "pattern")
        ELSE PlanItem(decide(rel_file, rel_file).act, rel_file, rel_file,
                      decide(rel_file, rel_file).reason)

\* the loop body with "continue" before the append of a pattern-excluded file
dir_items_nopattern(rel_dir, dirnames, filenames) ==
    LET rr == root_removed(rel_dir, dirnames)
        cr == rec_removed(root_keep(rel_dir, dirnames))
        fs == SelectSeq(filenames, LAMBDA n : ~is_file_excluded(n))
    IN  [i \in 1..Len(rr) |->
            PlanItem("EXCLUDE", Append(rel_dir, rr[i]), Append(rel_dir, rr[i]), "root_dir")]
        \o
        [i \in 1..Len(cr) |->
            PlanItem("EXCLUDE", Append(rel_dir, cr[i]), Append(rel_dir, cr[i]), "recursive_dir")]
        \o
        [i \in 1..Len(fs) |-> file_item(rel_dir, fs[i])]

\* the items one iteration of the os.walk loop appends for directory rel_dir
dir_items(rel_dir, dirnames, filenames) ==
    LET rr == root_removed(rel_dir, dirnames)
        cr == rec_removed(root_keep(rel_dir, dirnames))
    IN  [i \in 1..Len(rr) |->
            PlanItem("EXCLUDE", Append(rel_dir, rr[i]), Append(rel_dir, rr[i]), "root_dir")]
        \o
        [i \in 1..Len(cr) |->
            PlanItem("EXCLUDE", Append(rel_dir, cr[i]), Append(rel_dir, cr[i]), "recursive_dir")]
        \o
        [i \in 1..Len(filenames) |-> file_item(rel_dir, filenames[i])]

\* plan(), lines 93-95: the source root must exist
PlanStart ==
    /\ pc \in {"idle", "applied"}
    /\ run' = run + 1
    /\ IF srcExists
       THEN /\ pc' = "walk"
            /\ stack' = <<(<<>>)>>
            /\ items' = <<>>
            /\ UNCHANGED raised
       ELSE /\ pc' = "failed"
            /\ raised' = "FileNotFoundError"
            /\ UNCHANGED <<stack, items>>
    /\ UNCHANGED <<srcExists, srcDirs, noList, srcFiles, order, cfg, preserve_mtime,
                   dstDirs, dst, plan1, queue, k, failStep, cleanupFailed, dst0, dstPrev>>

\* one iteration of "for dirpath, dirnames, filenames in os.walk(...)", lines
\* 97-156.  os.walk yields nothing for a directory whose listing raises (its
\* onerror is None) and goes on with the next directory.
Visit ==
    /\ pc = "walk"
    /\ stack # <<>>
    /\ LET rel_dir   == Head(stack)
           dirnames  == Listing({n \in DirNames : Append(rel_dir, n) \in srcDirs})
           filenames == Listing({n \in FileNames : Append(rel_dir, n) \in DOMAIN srcFiles})
           keep      == rec_keep(root_keep(rel_dir, dirnames))
           new       == dir_items(rel_dir, dirnames, filenames)
       IN  IF rel_dir \in noList
           THEN /\ stack' = Tail(stack)
                /\ UNCHANGED <<items, pc, raised>>
           ELSE IF is_under_specific(rel_dir)
           THEN /\ items' = Append(items, PlanItem("EXCLUDE", rel_dir, rel_dir, "specific_path"))
                /\ stack' = Tail(stack)
                /\ UNCHANGED <<pc, raised>>
           ELSE IF \E i \in 1..Len(new) : new[i].action = "RAISE"
           THEN /\ pc' = "failed"
                /\ raised' = "PermissionError"
                /\ UNCHANGED <<items, stack>>
           ELSE /\ items' = items \o new
                /\ stack' = [i \in 1..Len(keep) |-> Append(rel_dir, keep[i])] \o Tail(stack)
                /\ UNCHANGED <<pc, raised>>
    /\ UNCHANGED <<srcExists, srcDirs, noList, srcFiles, order, cfg, preserve_mtime,
                   dstDirs, dst, run, plan1, queue, k, failStep, cleanupFailed, dst0, dstPrev>>

\* plan(), line 158: os.walk is exhausted, the list is returned
PlanReturn ==
    /\ pc = "walk"
    /\ stack = <<>>
    /\ pc' = "planned"
    /\ plan1' = IF run = 1 THEN items ELSE plan1
    /\ UNCHANGED <<srcExists, srcDirs, noList, srcFiles, order, cfg, preserve_mtime,
                   dstDirs, dst, run, stack, items, queue, k, raised, failStep,
                   cleanupFailed, dst0, dstPrev>>

(***************************************************************************)
(* SyncApplier.apply                                                       *)
(***************************************************************************)
ExcKinds == {"PermissionError", "OSError"}

\* the calls of one loop iteration that can raise
Steps == {"mkdir", "copy_open", "copy_write", "utime", "replace"}

\* shutil.copyfile(src, temp_path) followed by os.utime when preserve_mtime:
\* the temporary file as it is when the step 'fault' raises ("none": no step
\* raises).  copyfile opens the source first, so "copy_open" leaves the
\* temporary path as it was; a write error leaves a truncated file.
temp_written(old, src, fault) ==
    CASE fault = "copy_open"  -> old
      [] fault = "copy_write" ->
            [kind |-> "file", size |-> 0, mtime |-> Now,
             data |-> [of |-> src, state |-> "part"], acc |-> "ok"]
      [] fault = "utime" ->
            [kind |-> "file", size |-> srcFiles[src].size, mtime |-> Now,
             data |-> [of |-> src, state |-> "full"], acc |-> "ok"]
      [] OTHER ->
            [kind |-> "file", size |-> srcFiles[src].size,
             mtime |-> IF preserve_mtime THEN srcFiles[src].mtime ELSE Now,
             data |-> [of |-> src, state |-> "full"], acc |-> "ok"]

\* os.replace(temp_path, it.dst)
replace(d, temp, dstp) ==
    [d EXCEPT ![dstp] = d[temp], ![temp] = Absent]

\* the except handlers re-raising without removing the temporary file
cleanup_none(d, temp, rmfail) == d

\* the except handlers, lines 235-246: remove the temporary file if it
\* exists; rmfail: os.remove itself raises
cleanup(d, temp, rmfail) ==
    IF d[temp].kind = "file" /\ ~rmfail
    THEN [d EXCEPT ![temp] = Absent]
    ELSE d

\* main(), line 361: the plan filtered to ADD and UPDATE
to_apply(plan) == SelectSeq(plan, LAMBDA it : it.action \in {"ADD", "UPDATE"})

\* apply() is called: by main() with the filtered plan, by another caller
\* with the plan as it is
ApplyStart ==
    /\ pc = "planned"
    /\ run = 1
    /\ \E filtered \in BOOLEAN :
          queue' = IF filtered THEN to_apply(items) ELSE items
    /\ pc' = "apply"
    /\ k' = 0
    /\ dst0' = dst
    /\ dstPrev' = dst
    /\ UNCHANGED <<srcExists, srcDirs, noList, srcFiles, order, cfg, preserve_mtime,
                   dstDirs, dst, run, stack, items, plan1, raised, failStep, cleanupFailed>>

\* one iteration of "for it in items", lines 224-246
ApplyItem ==
    /\ pc = "apply"
    /\ k < Len(queue)
    /\ k' = k + 1
    /\ dstPrev' = dst
    /\ LET it   == queue[k + 1]
           temp == temp_path(it.dst)
       IN  IF it.action \in {"SKIP", "EXCLUDE"}
           THEN UNCHANGED <<dst, dstDirs, pc, raised, failStep, cleanupFailed>>
           ELSE \E fault \in Steps \cup {"none"}, exc \in ExcKinds,
                   rmfail \in BOOLEAN, rmexc \in ExcKinds :
                   LET written == [dst EXCEPT ![temp] = temp_written(dst[temp], it.src, fault)]
                   IN  IF fault = "mkdir"
                       THEN /\ pc' = "failed"
                            /\ raised' = exc
                            /\ failStep' = fault
                            /\ UNCHANGED <<dst, dstDirs, cleanupFailed>>
                       ELSE IF fault = "none"
                       THEN /\ dst' = replace(written, temp, it.dst)
                            /\ dstDirs' = dstDirs \cup Prefixes(Parent(it.dst))
                            /\ UNCHANGED <<pc, raised, failStep, cleanupFailed>>
                       ELSE /\ dst' = cleanup(written, temp, rmfail)
                            /\ dstDirs' = dstDirs \cup Prefixes(Parent(it.dst))
                            /\ cleanupFailed' = (written[temp].kind = "file" /\ rmfail)
                            /\ raised' = IF written[temp].kind = "file" /\ rmfail
                                         THEN rmexc ELSE exc
                            /\ failStep' = fault
                            /\ pc' = "failed"
    /\ UNCHANGED <<srcExists, srcDirs, noList, srcFiles, order, cfg, preserve_mtime,
                   run, stack, items, plan1, queue, dst0>>

\* the loop of apply() is over: main() prints "Apply complete."
ApplyReturn ==
    /\ pc = "apply"
    /\ k = Len(queue)
    /\ pc' = "applied"
    /\ UNCHANGED <<srcExists, srcDirs, noList, srcFiles, order, cfg, preserve_mtime,
                   dstDirs, dst, run, stack, items, plan1, queue, k, raised, failStep,
                   cleanupFailed, dst0, dstPrev>>

(***************************************************************************)
(* Initial states.                                                         *)
(***************************************************************************)
RECURSIVE Perms(_)
Perms(S) ==
    IF S = {} THEN {<<>>}
    ELSE UNION {{<<x>> \o p : p \in Perms(S \ {x})} : x \in S}

CanonOrder == <<(<<"o">>), <<"O">>, <<"o", "2">>, FileA, FileAPart, FileB, FileTO>>

\* the exclusion sections of the YAML document, as written by the user
RawRootDirs  == {{}, {<<"O">>}, {<<"o", "2">>}}
RawRecDirs   == {{}, {<<"o">>}, {<<"O", "2">>}}
RawSpecific  == {{}, {<<"o">>}, {<<"o", "2">>}, {<<"O", "/", "o">>},
                 {<<"o", "\\", "o", "2">>}, {<<"o", "2", "/", "O">>}}
RawPatterns  == {{}, {<<"*", ".", "O">>}}

RawConfigs ==
    [root_dirs : RawRootDirs, recursive_dirs : RawRecDirs,
     file_patterns : RawPatterns, specific_paths : RawSpecific]

NoExcludes ==
    [root_dirs |-> {}, recursive_dirs |-> {}, file_patterns |-> {}, specific_paths |-> {}]

\* the state of main() before plan() is called
Idle ==
    /\ pc = "idle"
    /\ run = 0
    /\ stack = <<>>
    /\ items = <<>>
    /\ plan1 = <<>>
    /\ queue = <<>>
    /\ k = 0
    /\ raised = "none"
    /\ failStep = "none"
    /\ cleanupFailed = FALSE
    /\ dst0 = dst
    /\ dstPrev = dst

\* the directories the destination needs for the files it holds
DirsOf(d) == UNION {Prefixes(Parent(p)) : p \in {q \in DOMAIN d : d[q].kind = "file"}}

\* planning: every tree, every exclusion configuration; each directory holds
\* the same files; the destination is empty or already mirrors the source
InitPlan ==
    /\ srcExists = TRUE
    /\ srcDirs \in Trees
    /\ noList = {}
    /\ \E fs \in {{FileA}, {FileA, FileTO}} :
          srcFiles = [p \in {Append(d, n) : d \in srcDirs \cup {<<>>}, n \in fs}
                        |-> [size |-> 1, mtime |-> 1, ok |-> TRUE]]
    /\ order = CanonOrder
    /\ \E raw \in RawConfigs : cfg = from_yaml(raw)
    /\ preserve_mtime = TRUE
    /\ \E mirrored \in BOOLEAN :
          dst = [p \in DstPaths(DOMAIN srcFiles) |->
                    IF mirrored /\ p \in DOMAIN srcFiles
                    THEN OldFile(srcFiles[p].size, srcFiles[p].mtime, "ok")
                    ELSE Absent]
    /\ dstDirs = DirsOf(dst)
    /\ Idle

NextPlan == PlanStart \/ Visit \/ PlanReturn

SpecPlan == InitPlan /\ [][NextPlan]_vars

(***************************************************************************)
(* Vocabulary of the properties of plan().                                 *)
(***************************************************************************)
Actions     == {"ADD", "UPDATE", "SKIP", "EXCLUDE"}
DirReasons  == {"root_dir", "recursive_dir", "specific_path"}
AllDirs     == srcDirs \cup {<<>>}

ItemsFor(p) == {i \in 1..Len(items) : items[i].src = p}

StrictlyInside(p, d) == Len(p) > Len(d) /\ SubSeq(p, 1, Len(d)) = d

NoItemInside(d) == \A i \in 1..Len(items) : ~StrictlyInside(items[i].src, d)

LowName(d) == Lower(d[Len(d)])

\* d is an immediate child of the root named in root_dirs
InRootDirs(d) == Len(d) = 1 /\ LowName(d) \in cfg.root_dirs

\* d is a directory, at any depth, named in recursive_dirs
InRecursiveDirs(d) == Len(d) >= 1 /\ LowName(d) \in cfg.recursive_dirs

\* the normalized path of d is an entry of specific_paths
EqualsEntry(d) == rel_str(d) \in cfg.specific_paths

\* the path of d equals an entry or is nested under one: d or one of its
\* ancestors is the directory an entry names
MatchesEntry(d) == \E a \in Prefixes(d) : EqualsEntry(a)

\* the same, read on the printed paths: the path of d is an entry, or the
\* path of an ancestor below the root is (the root prints as ".", which no
\* other relative path extends)
UnderEntry(d) ==
    \/ EqualsEntry(d)
    \/ \E a \in Prefixes(d) : a # <<>> /\ a # d /\ EqualsEntry(a)

\* d is cut off by one of the three directory-level exclusions
PrunedDir(d) == InRootDirs(d) \/ InRecursiveDirs(d) \/ EqualsEntry(d)

\* os.walk reaches d: no ancestor of d is cut off, d is not removed by name
Reached(d) ==
    /\ \A a \in Prefixes(d) : a # d => ~PrunedDir(a)
    /\ ~InRootDirs(d)
    /\ ~InRecursiveDirs(d)

\* plan() walks into d: it lists the files and the children of d
Traversed(d) == \A a \in Prefixes(d) : ~PrunedDir(a)

\* file f lies inside a directory one of the directory-level exclusions cuts off
InsidePruned(f) == ~Traversed(Parent(f))

(***************************************************************************)
(* C1 - Completeness: the list plan() returns holds exactly one item for   *)
(* every file under the source root that does not lie inside a directory   *)
(* pruned by root_dirs, recursive_dirs or specific_paths, and the action   *)
(* of that item is ADD, UPDATE, SKIP or EXCLUDE.                           *)
(***************************************************************************)
C1_Completeness ==
    pc = "planned" =>
        \A f \in DOMAIN srcFiles :
            ~InsidePruned(f) =>
                /\ Cardinality(ItemsFor(f)) = 1
                /\ \A i \in ItemsFor(f) : items[i].action \in Actions

\* a file below the root is planned, next to a pattern-excluded file, while
\* another file lies in a pruned directory
C1_Witness ==
    /\ pc = "planned"
    /\ \E f \in DOMAIN srcFiles :
          Len(f) = 3 /\ ~InsidePruned(f) /\ Cardinality(ItemsFor(f)) = 1
    /\ \E f \in DOMAIN srcFiles :
          ~InsidePruned(f) /\ \E i \in ItemsFor(f) : items[i].reason = "pattern"
    /\ \E f \in DOMAIN srcFiles : InsidePruned(f) /\ ItemsFor(f) = {}

(***************************************************************************)
(* C2 - Pruning by recursive name.                                         *)
(***************************************************************************)
\* C2 as stated: every directory whose lowercased name is in recursive_dirs,
\* at any depth, has one EXCLUDE item with reason "recursive_dir", and no
\* item is emitted for anything strictly inside it.
C2_Original ==
    pc = "planned" =>
        \A d \in srcDirs :
            InRecursiveDirs(d) =>
                /\ Cardinality(ItemsFor(d)) = 1
                /\ \A i \in ItemsFor(d) :
                      items[i].action = "EXCLUDE" /\ items[i].reason = "recursive_dir"
                /\ NoItemInside(d)

\* C2 as amended: for every directory whose lowercased name is in
\* recursive_dirs no item is emitted for anything strictly inside it; when
\* plan() walks into its parent the directory has exactly one item, an
\* EXCLUDE, whose reason is "recursive_dir" unless the directory is an
\* immediate child of the root also named in root_dirs (reason "root_dir").
C2_RecursivePruning ==
    pc = "planned" =>
        \A d \in srcDirs :
            InRecursiveDirs(d) =>
                /\ NoItemInside(d)
                /\ Traversed(Parent(d)) =>
                      /\ Cardinality(ItemsFor(d)) = 1
                      /\ \A i \in ItemsFor(d) :
                            /\ items[i].action = "EXCLUDE"
                            /\ items[i].reason =
                                  IF InRootDirs(d) THEN "root_dir" ELSE "recursive_dir"

\* a directory of depth two with an upper-case name, holding a file, is
\* pruned by its lowercased name
C2_Witness ==
    /\ pc = "planned"
    /\ \E d \in srcDirs :
          /\ Len(d) = 2
          /\ d[2] # Lower(d[2])
          /\ InRecursiveDirs(d)
          /\ Traversed(Parent(d))
          /\ \E f \in DOMAIN srcFiles : Parent(f) = d
          /\ \E i \in ItemsFor(d) : items[i].reason = "recursive_dir"

(***************************************************************************)
(* C3 - Prefix exclusion boundary.                                         *)
(***************************************************************************)
\* the items that stand for directory d under specific_paths: an EXCLUDE
\* with reason "specific_path" on d or on an ancestor of d
SpecificItemsOf(d) ==
    {i \in 1..Len(items) :
        /\ items[i].src \in Prefixes(d)
        /\ items[i].action = "EXCLUDE"
        /\ items[i].reason = "specific_path"}

\* _is_under_specific holds of exactly the directories whose path equals an
\* entry or is nested under one; a directory that merely begins with the
\* characters of an entry is walked and its files are planned
C3_Boundary ==
    /\ \A d \in AllDirs : is_under_specific(d) <=> UnderEntry(d)
    /\ pc = "planned" =>
          /\ \A i \in 1..Len(items) :
                items[i].reason = "specific_path" => MatchesEntry(items[i].src)
          /\ \A d \in AllDirs :
                ~MatchesEntry(d) /\ Traversed(d) =>
                    \A f \in DOMAIN srcFiles :
                        Parent(f) = d =>
                            /\ Cardinality(ItemsFor(f)) = 1
                            /\ \A i \in ItemsFor(f) : items[i].reason \notin DirReasons

\* C3 as stated: besides the boundary, every directory that equals or is
\* nested under an entry is represented by one EXCLUDE item with reason
\* "specific_path" and nothing inside it is emitted.
C3_Original ==
    /\ C3_Boundary
    /\ pc = "planned" =>
          \A d \in AllDirs :
              MatchesEntry(d) =>
                  /\ Cardinality(SpecificItemsOf(d)) = 1
                  /\ NoItemInside(d)

\* C3 as amended: besides the boundary, nothing inside a directory that
\* equals or is nested under an entry is emitted, and such a directory has
\* exactly one item, EXCLUDE with reason "specific_path", when the walk
\* reaches it, that is when no ancestor is pruned and root_dirs or
\* recursive_dirs did not remove it at its parent first.
C3_SpecificPruning ==
    /\ C3_Boundary
    /\ pc = "planned" =>
          \A d \in AllDirs :
              MatchesEntry(d) =>
                  /\ NoItemInside(d)
                  /\ Reached(d) =>
                        /\ Cardinality(ItemsFor(d)) = 1
                        /\ \A i \in ItemsFor(d) :
                              /\ items[i].action = "EXCLUDE"
                              /\ items[i].reason = "specific_path"

\* entry "o": directory o is excluded with its file, the sibling o2 is
\* walked and its file planned
C3_Witness ==
    /\ pc = "planned"
    /\ cfg.specific_paths = {<<"o">>}
    /\ \E i \in ItemsFor(<<(<<"o">>)>>) : items[i].reason = "specific_path"
    /\ <<(<<"o">>), FileA>> \in DOMAIN srcFiles
    /\ ItemsFor(<<(<<"o">>), FileA>>) = {}
    /\ <<(<<"o", "2">>), FileA>> \in DOMAIN srcFiles
    /\ \E i \in ItemsFor(<<(<<"o", "2">>), FileA>>) : items[i].action \in {"ADD", "SKIP"}

(***************************************************************************)
(* C10 - Root-only scoping: an EXCLUDE item with reason "root_dir" is only *)
(* ever emitted for an immediate child of the source root named in         *)
(* root_dirs, with nothing inside it emitted; a directory of the same name *)
(* at depth two or more, when no other exclusion matches it or an          *)
(* ancestor, is walked and each of its files gets a file disposition.      *)
(***************************************************************************)
C10_RootOnly ==
    pc = "planned" =>
        /\ \A i \in 1..Len(items) :
              items[i].reason = "root_dir" =>
                  /\ items[i].action = "EXCLUDE"
                  /\ items[i].src \in srcDirs
                  /\ InRootDirs(items[i].src)
        /\ \A d \in srcDirs :
              InRootDirs(d) /\ Traversed(<<>>) =>
                  /\ Cardinality(ItemsFor(d)) = 1
                  /\ \A i \in ItemsFor(d) : items[i].reason = "root_dir"
                  /\ NoItemInside(d)
        /\ \A d \in srcDirs :
              Len(d) >= 2 /\ LowName(d) \in cfg.root_dirs /\ Traversed(d) =>
                  /\ ItemsFor(d) = {}
                  /\ \A f \in DOMAIN srcFiles :
                        Parent(f) = d =>
                            /\ Cardinality(ItemsFor(f)) = 1
                            /\ \A i \in ItemsFor(f) : items[i].reason \notin DirReasons

\* one name of root_dirs occurs twice: pruned under the root, walked at depth two
C10_Witness ==
    /\ pc = "planned"
    /\ \E d \in srcDirs, e \in srcDirs :
          /\ InRootDirs(d)
          /\ \E i \in ItemsFor(d) : items[i].reason = "root_dir"
          /\ Len(e) = 2
          /\ LowName(e) = LowName(d)
          /\ \E f \in DOMAIN srcFiles :
                Parent(f) = e /\ \E i \in ItemsFor(f) : items[i].action \in {"ADD", "SKIP"}

(***************************************************************************)
(* plan, apply, plan again: one directory of files, every listing order,   *)
(* a destination that lacks, matches or differs from each source file and  *)
(* may hold files of its own.                                              *)
(***************************************************************************)
SyncFiles == {FileA, FileAPart, FileB}

SyncOrders ==
    {<<(<<"o">>), <<"O">>, <<"o", "2">>>> \o q \o <<FileTO>> : q \in Perms(SyncFiles)}

InitSync ==
    /\ srcExists = TRUE
    /\ srcDirs = {}
    /\ noList = {}
    /\ \E fs \in (SUBSET SyncFiles) \ {{}} :
          srcFiles = [p \in {<<n>> : n \in fs} |-> [size |-> 1, mtime |-> 1, ok |-> TRUE]]
    /\ order \in SyncOrders
    /\ cfg = from_yaml(NoExcludes)
    /\ preserve_mtime \in BOOLEAN
    /\ dst \in [DstPaths(DOMAIN srcFiles) -> {Absent, OldFile(1, 1, "ok"), OldFile(0, 0, "ok")}]
    /\ \A p \in DOMAIN dst :
          /\ p \notin DOMAIN srcFiles => dst[p] # OldFile(1, 1, "ok")
          /\ p \notin DOMAIN srcFiles \cup {<<FileAPart>>, <<Orphan>>} => dst[p] = Absent
    /\ dstDirs \in {DirsOf(dst), {<<>>}}
    /\ Idle

NextSync == PlanStart \/ Visit \/ PlanReturn \/ ApplyStart \/ ApplyItem \/ ApplyReturn

SpecSync == InitSync /\ [][NextSync]_vars

(***************************************************************************)
(* Vocabulary of the properties of apply().                                *)
(***************************************************************************)
Copied == {"ADD", "UPDATE"}

\* apply() raised while it processed item k of the queue
ApplyFailed == pc = "failed" /\ failStep # "none"

\* the destination file p holds all the bytes of source file src
HoldsCopyOf(p, src) ==
    /\ dst[p].kind = "file"
    /\ dst[p].data = [of |-> src, state |-> "full"]
    /\ dst[p].size = srcFiles[src].size

\* the destinations of the ADD/UPDATE items apply() has processed
ProcessedDst == {queue[i].dst : i \in {j \in 1..k : queue[j].action \in Copied}}

C5_Idempotence ==
    pc = "planned" /\ run = 2 /\ preserve_mtime =>
        \A i \in 1..Len(plan1) :
            plan1[i].action \in Copied =>
                \E j \in 1..Len(items) :
                    items[j].src = plan1[i].src /\ items[j].action = "SKIP"

(***************************************************************************)
(* C7 - Apply never deletes or alters unrelated destination files: once    *)
(* apply() has been called, every file the destination held before, other  *)
(* than the dst of an ADD/UPDATE item apply() has processed, is still      *)
(* there with its content.                                                 *)
(***************************************************************************)
C7_Frame ==
    pc \in {"apply", "applied", "failed"} =>
        \A p \in DOMAIN dst :
            dst0[p].kind = "file" /\ p \notin ProcessedDst => dst[p] = dst0[p]

(***************************************************************************)
(* C8 - Abort on first failure without rollback: when the copy of item k   *)
(* fails, the destination of every item after k is as it was when apply()  *)
(* was called, and every ADD/UPDATE item before k is at its destination    *)
(* with the complete source content.  (Stated for the runs in which the    *)
(* error handler removed the temporary file.)                              *)
(***************************************************************************)
C8_AbortNoRollback ==
    ApplyFailed /\ ~cleanupFailed =>
        /\ raised \in ExcKinds
        /\ \A j \in (k + 1)..Len(queue) : dst[queue[j].dst] = dst0[queue[j].dst]
        /\ \A i \in 1..(k - 1) :
              queue[i].action \in Copied => HoldsCopyOf(queue[i].dst, queue[i].src)

(***************************************************************************)
(* The decision on one file: every size and modification time of the       *)
(* source and of the destination, every way the two stats can end.         *)
(***************************************************************************)
Sizes  == 0..MaxSize
Mtimes == 0..MaxMtime

InitDecide ==
    /\ srcExists = TRUE
    /\ srcDirs = {}
    /\ noList = {}
    /\ srcFiles \in [{<<FileA>>} -> [size : Sizes, mtime : Mtimes, ok : BOOLEAN]]
    /\ order = CanonOrder
    /\ \E pats \in {{}, {<<"A">>}} :
          cfg = from_yaml([NoExcludes EXCEPT !.file_patterns = pats])
    /\ preserve_mtime = TRUE
    /\ \E e \in {Absent} \cup {OldFile(sz, mt, acc) :
                    sz \in Sizes, mt \in Mtimes, acc \in {"ok", "statfail", "denied"}} :
          dst = [p \in DstPaths(DOMAIN srcFiles) |-> IF p = <<FileA>> THEN e ELSE Absent]
    /\ dstDirs \in {DirsOf(dst), {<<>>}}
    /\ Idle

SpecDecide == InitDecide /\ [][NextPlan]_vars

AbsDiff(a, b) == IF a >= b THEN a - b ELSE b - a

(***************************************************************************)
(* C9 - Size and mtime decision with 2-second tolerance: a file no pattern *)
(* matches, with a readable source and an existing, readable destination,  *)
(* is SKIP exactly when the sizes are equal and the modification times     *)
(* differ by at most 2 seconds, and UPDATE otherwise; it is ADD exactly    *)
(* when the source is readable and no file exists at the destination.      *)
(***************************************************************************)
C9_Tolerance ==
    pc = "planned" =>
        \A i \in 1..Len(items) :
            LET f == items[i].src
                s == srcFiles[f]
                d == dst[f]
            IN  ~is_file_excluded(f[Len(f)]) =>
                    /\ s.ok /\ d.kind = "file" /\ d.acc = "ok" =>
                          /\ items[i].action \in {"SKIP", "UPDATE"}
                          /\ items[i].action = "SKIP" <=>
                                (s.size = d.size /\ AbsDiff(s.mtime, d.mtime) <= 2)
                    /\ items[i].action = "ADD" <=> (s.ok /\ d.kind = "absent")

\* equal sizes, modification times exactly 2 seconds apart: SKIP
C9_Witness ==
    /\ pc = "planned"
    /\ \E i \in 1..Len(items) :
          /\ items[i].action = "SKIP"
          /\ AbsDiff(srcFiles[items[i].src].mtime, dst[items[i].dst].mtime) = 2
          /\ srcFiles[items[i].src].size = dst[items[i].dst].size

(***************************************************************************)
(* Planning with filesystem errors: a root that may be missing, a          *)
(* directory whose listing fails, source files whose stat fails,           *)
(* destination files whose stat fails.                                     *)
(***************************************************************************)
InitErr ==
    /\ srcExists \in BOOLEAN
    /\ srcDirs \in IF srcExists THEN TreesUpTo(1) ELSE {{}}
    /\ noList \in {{}} \cup {{d} : d \in AllDirs}
    /\ srcExists \/ noList = {}
    /\ \E unread \in SUBSET AllDirs :
          srcFiles = [p \in {Append(d, FileA) : d \in IF srcExists THEN AllDirs ELSE {}}
                        |-> [size |-> 1, mtime |-> 1, ok |-> Parent(p) \notin unread]]
    /\ order = CanonOrder
    /\ cfg = from_yaml(NoExcludes)
    /\ preserve_mtime = TRUE
    /\ dst \in [DstPaths(DOMAIN srcFiles) ->
                  {Absent, OldFile(1, 1, "ok"), OldFile(1, 1, "statfail"), OldFile(1, 1, "denied")}]
    /\ \A p \in DOMAIN dst : p \notin DOMAIN srcFiles => dst[p] = Absent
    /\ dstDirs = DirsOf(dst)
    /\ Idle

SpecErr == InitErr /\ [][NextPlan]_vars

(***************************************************************************)
(* C6 - Planning absorbs per-entry errors: when the source root exists,    *)
(* plan() never raises and returns a plan in which every file has its      *)
(* item, an unreadable source file being EXCLUDE "unreadable", an          *)
(* unreadable destination UPDATE "dst unreadable", and an unreadable       *)
(* directory having an item of its own.                                    *)
(***************************************************************************)
C6_AbsorbErrors ==
    srcExists =>
        /\ pc # "failed"
        /\ pc = "planned" =>
              /\ \A f \in DOMAIN srcFiles :
                    /\ Cardinality(ItemsFor(f)) = 1
                    /\ \A i \in ItemsFor(f) :
                          /\ ~srcFiles[f].ok =>
                                items[i].action = "EXCLUDE" /\ items[i].reason = "unreadable"
                          /\ srcFiles[f].ok /\ dst[f].kind = "file" /\ dst[f].acc # "ok" =>
                                items[i].action = "UPDATE" /\ items[i].reason = "dst unreadable"
              /\ \A d \in noList :
                    \E i \in ItemsFor(d) : items[i].action \in {"EXCLUDE", "UPDATE"}

====
